---- MODULE Spec2Model ----
(***************************************************************************)
(* A model of send_to_lovable.py: the field normaliser (normalize_item),   *)
(* the collection assembler (load_all_news) and the batch dispatcher       *)
(* (send_to_lovable).                                                      *)
(*                                                                         *)
(* Python values are records [t, s, l]: t is the type tag, s the text of a *)
(* str (a sequence of one-character strings, so that strip() is computed), *)
(* l the elements of a list.  A run of non-whitespace characters may be    *)
(* written as one element of s.  An exception leaving a function is        *)
(* recorded in the function's result instead of being raised.              *)
(***************************************************************************)
EXTENDS Integers, Sequences, FiniteSets, TLC

VARIABLES
    \* normalize_item called on its own
    n_pc, item, source_domain, normalized,
    \* load_all_news
    l_pc, crawler, remaining, all_items, log,
    \* send_to_lovable
    s_pc, LOVABLE_ENDPOINT, items, i, total_processed, total_errors,
    requests, ret, summary

n_vars == <<n_pc, item, source_domain, normalized>>
l_vars == <<l_pc, crawler, remaining, all_items, log>>
s_vars == <<s_pc, LOVABLE_ENDPOINT, items, i, total_processed, total_errors,
            requests, ret, summary>>
vars == <<n_vars, l_vars, s_vars>>

----------------------------------------------------------------------------
(* Python values *)

Absent == [t |-> "absent", s |-> <<>>, l |-> <<>>]
None == [t |-> "none", s |-> <<>>, l |-> <<>>]
Str(x) == [t |-> "str", s |-> x, l |-> <<>>]
IntVal(d) == [t |-> "int", s |-> <<d>>, l |-> <<>>]
List(xs) == [t |-> "list", s |-> <<>>, l |-> xs]
Dict == [t |-> "dict", s |-> <<>>, l |-> <<>>]
\* a datetime object, datetime(2024, 2, 1)
Date == [t |-> "date", s |-> <<>>, l |-> <<>>]

\* bool(v): None, "", 0 and [] are false; Dict stands for a non-empty dict.
Truthy(v) ==
    CASE v.t = "none" -> FALSE
      [] v.t = "absent" -> FALSE
      [] v.t = "str" -> v.s # <<>>
      [] v.t = "int" -> v.s # <<"0">>
      [] v.t = "list" -> v.l # <<>>
      [] OTHER -> TRUE

\* a or b
Or(a, b) == IF Truthy(a) THEN a ELSE b

\* item.get(key): None for a key the mapping does not hold
Get(m, key) == IF m[key].t = "absent" THEN None ELSE m[key]

Whitespace == {" ", "\t", "\n"}

RECURSIVE LStrip(_)
LStrip(x) ==
    IF x # <<>> /\ Head(x) \in Whitespace THEN LStrip(Tail(x)) ELSE x

RECURSIVE RStrip(_)
RStrip(x) ==
    IF x # <<>> /\ x[Len(x)] \in Whitespace
    THEN RStrip(SubSeq(x, 1, Len(x) - 1))
    ELSE x

\* str.strip()
Strip(x) == RStrip(LStrip(x))

----------------------------------------------------------------------------
(* normalize_item *)

Keys ==
    {"titulo", "title", "manchete", "url", "link", "conteudo", "texto",
     "text", "resumo", "tags", "categoria", "category", "data_publicacao",
     "data", "published_at", "date"}

\* datetime.utcnow().isoformat(): the clock's value is left abstract
Now == "now"

\* parser.parse(raw_date, dayfirst=True).isoformat() on the texts the model
\* uses; "ParserError" when dateutil cannot read the text
ParseDate(x) ==
    CASE Strip(x) = <<"01/02/2024">> -> "2024-02-01T00:00:00"
      [] Strip(x) = <<"2024-02-01T10:00:00">> -> "2024-02-01T10:00:00"
      [] OTHER -> "ParserError"

\* ( a or b or ... or "" ) before .strip() is applied
FirstTruthy(m, keys) ==
    LET RECURSIVE go(_)
        go(k) == IF k > Len(keys) THEN Str(<<>>)
                 ELSE Or(Get(m, keys[k]), go(k + 1))
    IN go(1)

TitleKeys == <<"titulo", "title", "manchete">>
UrlKeys == <<"url", "link">>
TextKeys == <<"conteudo", "texto", "text", "resumo">>

\* x in tags, for tags a list
InList(x, xs) == \E k \in 1..Len(xs) : xs[k] = x

\* lines 101-107: the value of tags after the block, or the exception
TagsOf(m) ==
    LET tags0 == Or(Get(m, "tags"), List(<<>>))
        tags == IF tags0.t = "str" THEN List(<<tags0>>) ELSE tags0
        categoria == Or(Get(m, "categoria"), Get(m, "category"))
    IN  IF ~Truthy(categoria) THEN [exc |-> "none", v |-> tags]
        ELSE CASE tags.t = "list" ->
                    [exc |-> "none",
                     v |-> IF InList(categoria, tags.l) THEN tags
                           ELSE List(Append(tags.l, categoria))]
               \* categoria is no key of the dict; a dict has no append
               [] tags.t = "dict" -> [exc |-> "AttributeError", v |-> tags]
               \* an int or a datetime is not iterable
               [] OTHER -> [exc |-> "TypeError", v |-> tags]

\* lines 110-129: every exception of the try block ends in the fallback
PublishedAt(m) ==
    LET raw_date ==
            Or(Or(Or(Get(m, "data_publicacao"), Get(m, "data")),
                  Get(m, "published_at")), Get(m, "date"))
    IN  IF ~Truthy(raw_date) THEN Now
        ELSE IF raw_date.t = "str"
             THEN IF ParseDate(raw_date.s) = "ParserError" THEN Now
                  ELSE ParseDate(raw_date.s)
             ELSE IF raw_date.t = "date" THEN "2024-02-01T00:00:00"
                  ELSE Now

NoRecord ==
    [title |-> <<>>, url |-> <<>>, published_at |-> "", source |-> "",
     text |-> <<>>, tags |-> None]

Raised(e) == [exc |-> e, rec |-> NoRecord]

normalize_item(m, domain) ==
    LET title == FirstTruthy(m, TitleKeys)
        url == FirstTruthy(m, UrlKeys)
        text == FirstTruthy(m, TextKeys)
        tags == TagsOf(m)
    IN  IF title.t # "str" THEN Raised("AttributeError")
        ELSE IF url.t # "str" THEN Raised("AttributeError")
        ELSE IF text.t # "str" THEN Raised("AttributeError")
        ELSE IF tags.exc # "none" THEN Raised(tags.exc)
        ELSE [exc |-> "none",
              rec |-> [title |-> Strip(title.s),
                       url |-> Strip(url.s),
                       published_at |-> PublishedAt(m),
                       source |-> domain,
                       text |-> Strip(text.s),
                       tags |-> tags.v]]

----------------------------------------------------------------------------
(* Configuration and the inputs the model draws *)

\* SOURCE_MAP.items(), in insertion order
SOURCE_MAP ==
    << [name |-> "infomoney", domain |-> "infomoney.com.br"],
       [name |-> "money_times", domain |-> "moneytimes.com.br"],
       [name |-> "suno", domain |-> "suno.com.br"],
       [name |-> "fundamentus", domain |-> "fundamentus.com.br"],
       [name |-> "b3", domain |-> "b3.com.br"] >>

Domains == {SOURCE_MAP[c].domain : c \in 1..Len(SOURCE_MAP)}

\* a raw record holding the fields of f and no other
MkItem(f) == [k \in Keys |-> IF k \in DOMAIN f THEN f[k] ELSE Absent]

TitleValues ==
    {Absent, None, Str(<<>>), Str(<<" ">>), Str(<<"A">>),
     Str(<<" ", "B", " ">>), IntVal("7")}

TitleGroup ==
    [titulo : TitleValues, title : TitleValues,
     manchete : {Absent, Str(<<"C">>)}]

UrlGroup ==
    [url : {Absent, Str(<<>>), Str(<<" ">>), Str(<<"u1">>), Dict},
     link : {Absent, None, Str(<<" ", "u2">>)}]

TextGroup ==
    [conteudo : {Absent, Str(<<" ", "x">>), IntVal("7")},
     resumo : {Absent, Str(<<"r">>)}]

TagsGroup ==
    [tags : {Absent, Str(<<"t">>), List(<<Str(<<"t">>)>>), IntVal("7"), Dict},
     categoria : {Absent, Str(<<"t">>), Str(<<"c">>)},
     category : {Absent, Str(<<"c">>)}]

DateGroup ==
    [data_publicacao : {Absent, IntVal("7"), Date},
     data : {Absent, Str(<<"01/02/2024">>), Str(<<"amanha">>)}]

\* the raw records normalize_item is called on: every combination of the
\* title and url fields, and every combination of the other fields on a
\* record with a plain title and url
NormInputs ==
    {MkItem(t @@ u) : t \in TitleGroup, u \in UrlGroup}
    \cup {MkItem([titulo |-> Str(<<"A">>), url |-> Str(<<"u1">>)] @@ x @@ g @@ d) :
            x \in TextGroup, g \in TagsGroup, d \in DateGroup}

----------------------------------------------------------------------------
(* States of the three functions when they are not running *)

NormIdle ==
    /\ n_pc = "idle"
    /\ item = <<>>
    /\ source_domain = ""
    /\ normalized = <<>>

LoadIdle ==
    /\ l_pc = "idle"
    /\ crawler = 0
    /\ remaining = 0
    /\ all_items = <<>>
    /\ log = <<>>

SendIdle ==
    /\ s_pc = "idle"
    /\ LOVABLE_ENDPOINT = None
    /\ items = <<>>
    /\ i = 0
    /\ total_processed = 0
    /\ total_errors = 0
    /\ requests = <<>>
    /\ ret = "none"
    /\ summary = <<>>

----------------------------------------------------------------------------
(* normalize_item called on one raw record *)

NormInit ==
    /\ n_pc = "call"
    /\ item \in NormInputs
    /\ source_domain \in Domains
    /\ normalized = Raised("none")
    /\ LoadIdle
    /\ SendIdle

NormalizeCall ==
    /\ n_pc = "call"
    /\ normalized' = normalize_item(item, source_domain)
    /\ n_pc' = "done"
    /\ UNCHANGED <<item, source_domain, l_vars, s_vars>>

NormNext == NormalizeCall

SpecNorm == NormInit /\ [][NormNext]_vars

----------------------------------------------------------------------------
(* load_all_news *)

\* the largest number of raw records one run reads, over all its files
MaxRecords == 3

\* the raw records the files hold
LoadInputs ==
    { MkItem([titulo |-> Str(<<"A">>), url |-> Str(<<"u1">>)]),
      MkItem([title |-> Str(<<" ", "B", " ">>), url |-> Str(<<"u1">>)]),
      MkItem([titulo |-> Str(<<"A">>), link |-> Str(<<" ", "u2">>)]),
      MkItem([url |-> Str(<<"u1">>)]),
      MkItem([titulo |-> Str(<<"A">>), url |-> Str(<<" ">>)]),
      MkItem([titulo |-> IntVal("7"), url |-> Str(<<"u1">>)]) }

\* What lines 171-200 find for one crawler: no data directory, no JSON
\* file, a file json.load rejects, or the parsed document of the latest
\* file.  n is the length of the list the document holds.
Sources ==
    [kind : {"no_dirs", "no_json", "bad_json"}, shape : {"none"}, n : {0}]
    \cup [kind : {"doc"},
          shape : {"list", "items", "news", "self", "scalar"},
          n : 0..MaxRecords]

\* lines 203-208: len(items)
ItemCount(src) ==
    CASE src.shape = "list" -> src.n
      \* an empty list under the key is false: [raw_data] is taken
      [] src.shape \in {"items", "news"} -> IF src.n > 0 THEN src.n ELSE 1
      [] src.shape = "self" -> 1
      [] OTHER -> 0

\* the gate with the test of the url left out
IsValid_TitleOnly(rec) == rec.title # <<>>

\* line 214
IsValid(rec) == rec.title # <<>> /\ rec.url # <<>>

\* line 215, which follows the test of line 214 directly
Admit(list, rec) == Append(list, rec)

LoadInit ==
    /\ l_pc = "source"
    /\ crawler = 1
    /\ remaining = 0
    /\ all_items = <<>>
    /\ log = <<>>
    /\ NormIdle
    /\ SendIdle

\* One turn of the loop of line 170 up to the loop of line 211.
OpenSource ==
    /\ l_pc = "source"
    /\ crawler <= Len(SOURCE_MAP)
    /\ \E src \in Sources :
         /\ ItemCount(src) <= MaxRecords - Len(log)
         /\ IF src.kind = "doc" /\ ItemCount(src) > 0
            THEN /\ l_pc' = "items"
                 /\ remaining' = ItemCount(src)
                 /\ UNCHANGED crawler
            ELSE /\ crawler' = crawler + 1
                 /\ UNCHANGED <<l_pc, remaining>>
    /\ UNCHANGED <<all_items, log, n_vars, s_vars>>

\* One turn of the loop of line 211.  An exception of normalize_item is
\* caught at line 222, which ends the crawler's file.
ReadItem ==
    /\ l_pc = "items"
    /\ \E raw \in LoadInputs :
         LET r == normalize_item(raw, SOURCE_MAP[crawler].domain)
             more == r.exc = "none" /\ remaining > 1
         IN  /\ log' = Append(log, [crawler |-> crawler, exc |-> r.exc,
                                     rec |-> r.rec])
             /\ all_items' = IF r.exc = "none" /\ IsValid(r.rec)
                             THEN Admit(all_items, r.rec)
                             ELSE all_items
             /\ remaining' = IF more THEN remaining - 1 ELSE 0
             /\ l_pc' = IF more THEN "items" ELSE "source"
             /\ crawler' = IF more THEN crawler ELSE crawler + 1
    /\ UNCHANGED <<n_vars, s_vars>>

\* line 225
LoadReturn ==
    /\ l_pc = "source"
    /\ crawler > Len(SOURCE_MAP)
    /\ l_pc' = "done"
    /\ UNCHANGED <<crawler, remaining, all_items, log, n_vars, s_vars>>

LoadNext == OpenSource \/ ReadItem \/ LoadReturn

SpecLoad == LoadInit /\ [][LoadNext]_vars

----------------------------------------------------------------------------
(* send_to_lovable *)

\* the longest list handed to send_to_lovable
MaxLen == 120

batch_size == 50

Min(a, b) == IF a < b THEN a ELSE b

\* the values os.getenv gives LOVABLE_ENDPOINT: unset, empty, a URL
Endpoints == {None, Str(<<>>), Str(<<"https://endpoint">>)}

\* The list of records: record k is the k-th record of the list.
ItemLists == {[k \in 1..n |-> k] : n \in 0..MaxLen}

\* The body of a response: shape "object" is a JSON object, whose
\* processed and errors are <<>> when the key is absent; "null_count" is a
\* JSON object whose processed is null; "array" and "null" are JSON values
\* that are no object; "not_json" is a text json cannot parse.
NoBody == [shape |-> "none", processed |-> <<>>, errors |-> <<>>]

Bodies ==
    [shape : {"object"}, processed : {<<>>, <<3>>}, errors : {<<>>, <<2>>}]
    \cup [shape : {"null_count", "array", "null", "not_json"},
          processed : {<<>>}, errors : {<<>>}]

NetworkFaults == {"Timeout", "ConnectionError"}

\* What requests.post gives: a response with its status_code and body, or
\* one of the exceptions of requests.
Responses ==
    [kind : {"http"}, status : {200}, body : Bodies]
    \cup [kind : {"http"}, status : {404, 500}, body : {NoBody}]
    \cup [kind : NetworkFaults, status : {0}, body : {NoBody}]

\* result.get(key, 0)
GetCount(field) == IF field = <<>> THEN 0 ELSE field[1]

\* the two tests of lines 231-237 in the other order
Entry_EmptyListFirst(endpoint, list) ==
    IF list = <<>> THEN "True"
    ELSE IF ~Truthy(endpoint) THEN "False"
    ELSE "go"

\* lines 231-237: the value returned before the loop, "go" when the loop
\* is entered
Entry(endpoint, list) ==
    IF ~Truthy(endpoint) THEN "False"
    ELSE IF list = <<>> THEN "True"
    ELSE "go"

\* a network fault handled as a bad status is: counted, and the loop goes on
Turn_FaultCountedAsErrors(resp, batch) ==
    IF resp.kind = "http" /\ resp.status = 200
    THEN [how |-> "next", ret |-> "none",
          processed |-> GetCount(resp.body.processed),
          errors |-> GetCount(resp.body.errors)]
    ELSE [how |-> "next", ret |-> "none", processed |-> 0,
          errors |-> Len(batch)]

\* lines 265-279 and 288-293, for one batch: how the turn of the loop ends
\* ("next": the loop goes on; "return": the function returns ret; "raise":
\* the exception exc leaves the function) and what it adds to the totals.
Turn(resp, batch) ==
    LET end(how, r, p, e) ==
            [how |-> how, ret |-> r, processed |-> p, errors |-> e]
    IN  IF resp.kind \in NetworkFaults THEN end("return", "False", 0, 0)
        ELSE IF resp.status = 200
        THEN CASE resp.body.shape = "object" ->
                    end("next", "none", GetCount(resp.body.processed),
                        GetCount(resp.body.errors))
               \* except json.JSONDecodeError: result = {} (the error
               \* resp.json() raises is a json.JSONDecodeError)
               [] resp.body.shape = "not_json" -> end("next", "none", 0, 0)
               \* total_processed += None
               [] resp.body.shape = "null_count" ->
                    end("raise", "TypeError", 0, 0)
               \* a list or None has no get
               [] OTHER -> end("raise", "AttributeError", 0, 0)
        ELSE end("next", "none", 0, Len(batch))

SendInit ==
    /\ s_pc = "entry"
    /\ LOVABLE_ENDPOINT \in Endpoints
    /\ items \in ItemLists
    /\ i = 0
    /\ total_processed = 0
    /\ total_errors = 0
    /\ requests = <<>>
    /\ ret = "none"
    /\ summary = <<>>
    /\ NormIdle
    /\ LoadIdle

\* lines 231-252
Enter ==
    /\ s_pc = "entry"
    /\ IF Entry(LOVABLE_ENDPOINT, items) = "go"
       THEN s_pc' = "loop" /\ UNCHANGED ret
       ELSE s_pc' = "done" /\ ret' = Entry(LOVABLE_ENDPOINT, items)
    /\ UNCHANGED <<LOVABLE_ENDPOINT, items, i, total_processed, total_errors,
                   requests, summary, n_vars, l_vars>>

\* One turn of the loop of line 254: the request is issued and answered.
PostBatch ==
    /\ s_pc = "loop"
    /\ i < Len(items)
    /\ \E resp \in Responses :
         LET batch == SubSeq(items, i + 1, Min(i + batch_size, Len(items)))
             t == Turn(resp, batch)
         IN  /\ requests' = Append(requests, [batch |-> batch, resp |-> resp])
             /\ total_processed' = total_processed + t.processed
             /\ total_errors' = total_errors + t.errors
             /\ IF t.how = "next"
                THEN /\ i' = i + batch_size
                     /\ UNCHANGED <<s_pc, ret>>
                ELSE /\ s_pc' = "done"
                     /\ ret' = t.ret
                     /\ UNCHANGED i
    /\ UNCHANGED <<LOVABLE_ENDPOINT, items, summary, n_vars, l_vars>>

\* lines 281-286: the summary is printed and True returned
Finish ==
    /\ s_pc = "loop"
    /\ i >= Len(items)
    /\ summary' = <<[sent |-> Len(items), processed |-> total_processed,
                     errors |-> total_errors]>>
    /\ ret' = "True"
    /\ s_pc' = "done"
    /\ UNCHANGED <<LOVABLE_ENDPOINT, items, i, total_processed, total_errors,
                   requests, n_vars, l_vars>>

SendNext == Enter \/ PostBatch \/ Finish

SpecSend == SendInit /\ [][SendNext]_vars

----------------------------------------------------------------------------
(* Claims about normalize_item (checked under SpecNorm) *)

\* C6: normalize_item is total: for every raw record, whatever the types of
\* its fields, the call returns a canonical record and raises nothing.
C6_NormalizeNeverRaises ==
    n_pc = "done" => normalized.exc = "none"

\* the trimmed value of the first of keys whose text is non-empty after
\* trimming, "" when there is none
RECURSIVE FirstNonEmptyTrimmed(_, _, _)
FirstNonEmptyTrimmed(m, keys, k) ==
    IF k > Len(keys) THEN <<>>
    ELSE IF m[keys[k]].t = "str" /\ Strip(m[keys[k]].s) # <<>>
         THEN Strip(m[keys[k]].s)
         ELSE FirstNonEmptyTrimmed(m, keys, k + 1)

Textual(m, keys) ==
    \A k \in 1..Len(keys) : m[keys[k]].t \in {"absent", "none", "str"}

\* C10: the title is the trimmed value of the first of titulo, title,
\* manchete that is non-empty after trimming ("" when none is), and the url
\* likewise of url, link; a whitespace-only titulo does not win over a
\* non-empty title.
C10_FirstNonEmptyAfterTrimWins ==
    (/\ n_pc = "done"
     /\ normalized.exc = "none"
     /\ Textual(item, TitleKeys)
     /\ Textual(item, UrlKeys))
    => /\ normalized.rec.title = FirstNonEmptyTrimmed(item, TitleKeys, 1)
       /\ normalized.rec.url = FirstNonEmptyTrimmed(item, UrlKeys, 1)

----------------------------------------------------------------------------
(* Claims about load_all_news (checked under SpecLoad) *)

\* the records read so far that pass the validity gate
ValidRead(k) == log[k].exc = "none" /\ IsValid(log[k].rec)

\* the first valid record read with url u
FirstWithUrl(u) ==
    log[CHOOSE k \in 1..Len(log) :
          /\ ValidRead(k) /\ log[k].rec.url = u
          /\ \A j \in 1..(k - 1) : ~(ValidRead(j) /\ log[j].rec.url = u)].rec

\* C1: the returned list holds no two records with the same url: of the
\* valid records read with one url, across sources or within one, exactly
\* one is in the list, the one read first.
C1_OutputDeduplicatedByUrl ==
    l_pc = "done" =>
        \A k \in 1..Len(log) :
            ValidRead(k) =>
                LET at == {p \in 1..Len(all_items) :
                             all_items[p].url = log[k].rec.url}
                IN  /\ Cardinality(at) = 1
                    /\ \A p \in at : all_items[p] = FirstWithUrl(log[k].rec.url)

\* the record the step has just read, when the step read one
JustRead == log'[Len(log')]

\* C9: every record of the list has a non-empty title and a non-empty url;
\* and reading a record whose normalized title or url is empty raises
\* nothing, leaves the list as it is and goes on: to the next record of the
\* file when there is one, to the next crawler otherwise.
C9_ValidityGateDropsSilently ==
    /\ [](\A p \in 1..Len(all_items) :
            all_items[p].title # <<>> /\ all_items[p].url # <<>>)
    /\ [][(/\ Len(log') = Len(log) + 1
           /\ JustRead.exc = "none"
           /\ (JustRead.rec.title = <<>> \/ JustRead.rec.url = <<>>))
          => /\ all_items' = all_items
             /\ IF remaining > 1
                THEN l_pc' = "items" /\ crawler' = crawler
                     /\ remaining' = remaining - 1
                ELSE l_pc' = "source" /\ crawler' = crawler + 1]_vars

\* a record was dropped, a later record of the same file was admitted, and
\* so was a record of a later crawler
C9_Witness ==
    \E j, k, m \in 1..Len(log) :
        /\ j < k /\ k < m
        /\ log[j].exc = "none" /\ ~IsValid(log[j].rec)
        /\ log[k].crawler = log[j].crawler /\ ValidRead(k)
        /\ log[m].crawler > log[j].crawler /\ ValidRead(m)
        /\ Len(all_items) = 2
        /\ l_pc = "done"

----------------------------------------------------------------------------
(* Claims about send_to_lovable (checked under SpecSend) *)

Configured == Truthy(LOVABLE_ENDPOINT)

NoNetworkFault ==
    \A k \in 1..Len(requests) : requests[k].resp.kind \notin NetworkFaults

\* ceil(n / 50)
NumBatches(n) == (n + batch_size - 1) \div batch_size

RECURSIVE Concat(_, _)
Concat(reqs, k) ==
    IF k > Len(reqs) THEN <<>> ELSE reqs[k].batch \o Concat(reqs, k + 1)

\* C2: a non-empty list of n records, delivered with an endpoint configured
\* and no network fault, is sent in exactly ceil(n/50) requests; request k
\* carries records 50(k-1)+1 .. min(50k, n) of the list, and the bodies in
\* issue order make up the list.
C2_ContiguousBatchesOfFifty ==
    (s_pc = "done" /\ Configured /\ items # <<>> /\ NoNetworkFault)
    => /\ Len(requests) = NumBatches(Len(items))
       /\ \A k \in 1..Len(requests) :
            /\ requests[k].batch =
                 SubSeq(items, batch_size * (k - 1) + 1,
                        Min(batch_size * k, Len(items)))
            /\ Len(requests[k].batch) \in 1..batch_size
            /\ k < Len(requests) => Len(requests[k].batch) = batch_size
       /\ Concat(requests, 1) = items

\* C3: a request that ends in a timeout or a connection failure is the last
\* one issued, and the call returns False, whatever the earlier batches
\* were answered.
C3_NetworkFaultAborts ==
    \A k \in 1..Len(requests) :
        requests[k].resp.kind \in NetworkFaults
        => k = Len(requests) /\ s_pc = "done" /\ ret = "False"

\* the third request ends in a network fault, after a batch answered with a
\* bad status and a batch answered with 200
C3_Witness ==
    /\ Len(requests) = 3
    /\ requests[1].resp.status = 500
    /\ requests[2].resp.status = 200
    /\ requests[3].resp.kind = "Timeout"
    /\ Len(items) > 2 * batch_size + 1
    /\ ret = "False"

BadStatus(resp) == resp.kind = "http" /\ resp.status \notin 200..299

\* the totals the claims give for the requests answered so far
RECURSIVE ClaimedProcessed(_, _)
ClaimedProcessed(reqs, k) ==
    IF k > Len(reqs) THEN 0
    ELSE (IF reqs[k].resp.kind = "http" /\ reqs[k].resp.status = 200
             /\ reqs[k].resp.body.shape = "object"
          THEN GetCount(reqs[k].resp.body.processed) ELSE 0)
         + ClaimedProcessed(reqs, k + 1)

RECURSIVE ClaimedErrors(_, _)
ClaimedErrors(reqs, k) ==
    IF k > Len(reqs) THEN 0
    ELSE (IF BadStatus(reqs[k].resp) THEN Len(reqs[k].batch)
          ELSE IF reqs[k].resp.kind = "http"
                  /\ reqs[k].resp.body.shape = "object"
               THEN GetCount(reqs[k].resp.body.errors) ELSE 0)
         + ClaimedErrors(reqs, k + 1)

\* C4: a batch answered with a non-success status adds its size to the
\* error total and nothing to the processed total, and the next batch is
\* requested; a call in which no request hits a network fault returns True,
\* however many batches had a non-success status.
C4_BadStatusCountedAndRunSucceeds ==
    /\ \A k \in 1..Len(requests) :
         BadStatus(requests[k].resp) =>
            \/ k < Len(requests)
            \/ /\ s_pc = "loop" /\ i = batch_size * k
               /\ total_errors = ClaimedErrors(requests, 1)
               /\ total_processed = ClaimedProcessed(requests, 1)
            \/ k = NumBatches(Len(items)) /\ ret = "True"
    /\ (s_pc = "done" /\ Configured /\ NoNetworkFault) => ret = "True"

\* C5: the result carries the boolean and the totals (sent, processed,
\* errors), processed and errors being the sums over the answered batches;
\* when a network fault ends the delivery at batch k, the totals of batches
\* 1..k-1 come with the failure.
C5_TotalsReportedWithResult ==
    (s_pc = "done" /\ ret \in {"True", "False"} /\ requests # <<>>)
    => summary = <<[sent |-> Len(items),
                    processed |-> ClaimedProcessed(requests, 1),
                    errors |-> ClaimedErrors(requests, 1)]>>

\* C7: with no endpoint configured the call returns False for every list
\* and issues no request.
C7_NoEndpointFailsClosed ==
    ~Configured => /\ requests = <<>>
                   /\ s_pc # "loop"
                   /\ s_pc = "done" => ret = "False"

C7_Witness ==
    /\ LOVABLE_ENDPOINT = Str(<<>>)
    /\ Len(items) > batch_size
    /\ s_pc = "done"
    /\ ret = "False"

\* a 200 answer whose body is no JSON, or JSON that is no object
Unexpected200(resp) ==
    /\ resp.kind = "http"
    /\ resp.status = 200
    /\ resp.body.shape \in {"not_json", "array", "null"}

\* C8: a batch answered with 200 and a body that is not the expected object
\* adds nothing to either total, the next batch is requested, and the call
\* neither fails nor raises because of it.
C8_Unexpected200BodyTolerated ==
    \A k \in 1..Len(requests) :
        Unexpected200(requests[k].resp) =>
            /\ ret \notin {"AttributeError", "TypeError"}
            /\ \/ k < Len(requests)
               \/ /\ s_pc = "loop" /\ i = batch_size * k
                  /\ total_errors = ClaimedErrors(requests, 1)
                  /\ total_processed = ClaimedProcessed(requests, 1)
               \/ k = NumBatches(Len(items)) /\ ret = "True"

----------------------------------------------------------------------------
(* What holds of the calls no response body ends with an exception *)

NoBodyRaised == ret \notin {"AttributeError", "TypeError"}

BatchesUnlessBodyRaises == NoBodyRaised => C2_ContiguousBatchesOfFifty

BadStatusUnlessBodyRaises == NoBodyRaised => C4_BadStatusCountedAndRunSucceeds

SummaryWhenTrue ==
    ret = "True" /\ requests # <<>> =>
        summary = <<[sent |-> Len(items),
                     processed |-> ClaimedProcessed(requests, 1),
                     errors |-> ClaimedErrors(requests, 1)]>>

====
